---- MODULE Spec2Model ----
(***************************************************************************)
(* A model of the "death" command-line program: the calendar module        *)
(* (src/date.rs), the prediction engine (src/user.rs), the birthday        *)
(* validators and prompt loops (src/main.rs, src/cli.rs) and the loading   *)
(* of the death reasons (src/lib.rs).                                      *)
(*                                                                         *)
(* Integers keep the width the source gives them: year is u16, month and   *)
(* day are u8.  An arithmetic overflow panics in a build with overflow     *)
(* checks (debug) and wraps in a build without them (release); the         *)
(* variable profile fixes which build is running.                          *)
(***************************************************************************)
EXTENDS Integers, Sequences, FiniteSets, TLC

VARIABLES
    profile,    \* "debug" (overflow checks on) or "release" (wrapping)
    pc,         \* the operation that produced the current state
    year,       \* Date::build argument year: u16
    month,      \* Date::build argument month: u8
    day,        \* Date::build argument day: u8
    date,       \* the current date value: the outcome of the last operation
    prev,       \* the date the last next_day / next_month was applied to
    steps,      \* how many next_day / next_month calls were made
    text,       \* the string handed to Date::parse / parse_birthday
    sep,        \* Date::parse local sep: the separator found, or "None"
    parts,      \* Date::parse local parts: the text split on sep
    numbers,    \* Date::parse local numbers when parse returned
    parsed,     \* the result of Date::parse(text)
    today,      \* Date::today()
    verdict,    \* the result of parse_birthday(text)
    user,       \* the User: its birthday and the 64-bit hash of its name
    age,        \* the result of User::years_old()
    years_left, \* the result of User::get_years_left()
    death_date, \* the result of User::get_death_date()
    entry,      \* whose ask_birthday runs: that of "main" (main.rs) or "cli" (cli.rs)
    flag,       \* args.birthday: <<text>> when given by flag, <<>> when not
    stdin,      \* the lines standard input still holds
    prompts,    \* how many times the birthday prompt was printed
    errors,     \* the error lines printed so far, each with its stream
    exit_code,  \* <<status>> once process::exit was called, <<>> before
    birthday,   \* ask_birthday local birthday: the accepted date
    ask_age,    \* the value ask_birthday returned (u8)
    other,      \* Date::years_from argument other
    elapsed,    \* the result of date.years_from(other)
    elapsed_back, \* the result of other.years_from(date)
    danger,     \* the results of the User::get_danger() calls, in order
    file_path,  \* read_death_reasons argument: <<path>>, or <<>> for None
    file,       \* the file at that path: <<contents>>, or <<>> when unreadable
    reasons     \* the result of read_death_reasons(file_path)

commonVars == <<profile, pc>>
dateVars == <<year, month, day, date, prev, steps>>
parseVars == <<text, sep, parts, numbers, parsed>>
birthdayVars == <<today, verdict>>
userVars == <<user, age, years_left, death_date, danger>>
askVars == <<entry, flag, stdin, prompts, errors, exit_code, birthday, ask_age>>
yearsVars == <<other, elapsed, elapsed_back>>
reasonsVars == <<file_path, file, reasons>>

vars == <<commonVars, dateVars, parseVars, birthdayVars, userVars, askVars,
          yearsVars, reasonsVars>>

-----------------------------------------------------------------------------
(* Machine integers *)

U8Max == 255
U16Max == 65535

Profiles == {"debug", "release"}

\* `x as u8`: truncation to the low 8 bits.
AsU8(x) == x % (U8Max + 1)

\* `x as u16`: truncation to the low 16 bits.
AsU16(x) == x % (U16Max + 1)

-----------------------------------------------------------------------------
(* Outcomes: a value, a ParseError, or a panic *)

NoDate == [year |-> 0, month |-> 0, day |-> 0]

Ok(v) == [tag |-> "Ok", val |-> v, err |-> "None"]
PanicN(why) == [tag |-> "Panic", val |-> 0, err |-> why]
Err(e) == [tag |-> "Err", val |-> NoDate, err |-> e]
Panic(why) == [tag |-> "Panic", val |-> NoDate, err |-> why]

IsOk(r) == r.tag = "Ok"

\* Result<Vec<String>, io::Error>: the value of read_death_reasons.
OkList(l) == [tag |-> "Ok", list |-> l, err |-> "None"]
ErrIo(e) == [tag |-> "Err", list |-> <<>>, err |-> e]
NoReasons == ErrIo("None")

\* u16 `a + b`: panics on overflow with overflow checks, wraps without.
AddU16(a, b) ==
    IF a + b > U16Max
    THEN IF profile = "debug" THEN [panic |-> TRUE, val |-> 0]
         ELSE [panic |-> FALSE, val |-> AsU16(a + b)]
    ELSE [panic |-> FALSE, val |-> a + b]

\* u16 `a - b`: panics on underflow with overflow checks, wraps without.
SubU16(a, b) ==
    IF a - b < 0
    THEN IF profile = "debug" THEN [panic |-> TRUE, val |-> 0]
         ELSE [panic |-> FALSE, val |-> AsU16(a - b + U16Max + 1)]
    ELSE [panic |-> FALSE, val |-> a - b]

-----------------------------------------------------------------------------
(* src/date.rs *)

MAX_YEARS_OLD == 100

MkDate(y, m, d) == [year |-> y, month |-> m, day |-> d]

is_leap_year(y) == (y % 4 = 0 /\ y % 100 # 0) \/ y % 400 = 0

max_day_of(y, m) ==
    IF m = 2
    THEN IF is_leap_year(y) THEN 29 ELSE 28
    ELSE IF m \in {1, 3, 5, 7, 8, 10, 12} THEN 31 ELSE 30

get_max_day(d) == max_day_of(d.year, d.month)

build_month_first(y, m, d) ==
    IF m < 1 \/ m > 12 THEN Err("InvalidMonth")
    ELSE IF y = 0 THEN Err("InvalidYear")
    ELSE IF d < 1 \/ d > max_day_of(y, m) THEN Err("InvalidDay")
    ELSE Ok(MkDate(y, m, d))

build(y, m, d) ==
    IF y = 0 THEN Err("InvalidYear")
    ELSE IF m < 1 \/ m > 12 THEN Err("InvalidMonth")
    ELSE IF d < 1 \/ d > get_max_day(MkDate(y, m, 1)) THEN Err("InvalidDay")
    ELSE Ok(MkDate(y, m, d))

\* The derived Ord of Date: lexicographic on (year, month, day).
DateLt(a, b) ==
    \/ a.year < b.year
    \/ a.year = b.year /\ a.month < b.month
    \/ a.year = b.year /\ a.month = b.month /\ a.day < b.day

DateLe(a, b) == a = b \/ DateLt(a, b)

next_day(d) ==
    IF d.day = get_max_day(d)
    THEN IF d.month = 12
         THEN LET y == AddU16(d.year, 1)
              IN  IF y.panic THEN Panic("attempt to add with overflow")
                  ELSE Ok(MkDate(y.val, 1, 1))
         ELSE Ok(MkDate(d.year, d.month + 1, 1))
    ELSE Ok(MkDate(d.year, d.month, d.day + 1))

Clamp(x, lo, hi) == IF x < lo THEN lo ELSE IF x > hi THEN hi ELSE x

next_month(d) ==
    LET y == IF d.month = 12 THEN AddU16(d.year, 1)
             ELSE [panic |-> FALSE, val |-> d.year]
        m == IF d.month = 12 THEN 1 ELSE d.month + 1
    IN  IF y.panic THEN Panic("attempt to add with overflow")
        ELSE Ok(MkDate(y.val, m, Clamp(d.day, 1, max_day_of(y.val, m))))

DateMin(a, b) == IF DateLe(a, b) THEN a ELSE b

DateMax(a, b) == IF DateLe(a, b) THEN b ELSE a

\* years_from with self and other taken as they come, not ordered.
years_from_unordered(a, b) ==
    LET left == a
        right == b
        diff == SubU16(right.year, left.year)
    IN  IF diff.panic THEN PanicN("attempt to subtract with overflow")
        ELSE IF \/ right.month < left.month
                \/ right.month = left.month /\ right.day < left.day
        THEN LET r == SubU16(diff.val, 1)
             IN  IF r.panic THEN PanicN("attempt to subtract with overflow")
                 ELSE Ok(r.val)
        ELSE Ok(diff.val)

years_from(a, b) ==
    LET left == DateMin(a, b)
        right == DateMax(a, b)
        diff == SubU16(right.year, left.year)
    IN  IF diff.panic THEN PanicN("attempt to subtract with overflow")
        ELSE IF \/ right.month < left.month
                \/ right.month = left.month /\ right.day < left.day
        THEN LET r == SubU16(diff.val, 1)
             IN  IF r.panic THEN PanicN("attempt to subtract with overflow")
                 ELSE Ok(r.val)
        ELSE Ok(diff.val)

-----------------------------------------------------------------------------
(* src/date.rs: Date::parse.  A string is a sequence of characters. *)

DigitChars == <<"0", "1", "2", "3", "4", "5", "6", "7", "8", "9">>

IsDigit(c) == \E i \in 1 .. 10 : DigitChars[i] = c

DigitVal(c) == (CHOOSE i \in 1 .. 10 : DigitChars[i] = c) - 1

Contains(s, c) == \E i \in 1 .. Len(s) : s[i] = c

\* The value of a string of decimal digits.
RECURSIVE DecimalValue(_)
DecimalValue(s) ==
    IF s = <<>> THEN 0
    ELSE 10 * DecimalValue(SubSeq(s, 1, Len(s) - 1)) + DigitVal(s[Len(s)])

\* `part.parse::<u16>()`: an optional leading '+', then one or more decimal
\* digits whose value fits 16 bits; anything else is an error.
ParseU16(part) ==
    LET body == IF part # <<>> /\ part[1] = "+" THEN Tail(part) ELSE part
    IN  IF body = <<>> \/ (\E i \in 1 .. Len(body) : ~IsDigit(body[i]))
        THEN [ok |-> FALSE, val |-> 0]
        ELSE IF DecimalValue(body) > U16Max
        THEN [ok |-> FALSE, val |-> 0]
        ELSE [ok |-> TRUE, val |-> DecimalValue(body)]

separators == <<".", "/", "-", " ">>

\* The loop over separators: the first candidate the text contains.
find_separator_last(s) ==
    IF \E i \in 1 .. 4 : Contains(s, separators[i])
    THEN LET i == CHOOSE i \in 1 .. 4 :
                      /\ Contains(s, separators[i])
                      /\ \A j \in (i + 1) .. 4 : ~Contains(s, separators[j])
         IN  separators[i]
    ELSE "None"

find_separator(s) ==
    IF \E i \in 1 .. 4 : Contains(s, separators[i])
    THEN LET i == CHOOSE i \in 1 .. 4 :
                      /\ Contains(s, separators[i])
                      /\ \A j \in 1 .. (i - 1) : ~Contains(s, separators[j])
         IN  separators[i]
    ELSE "None"

\* `s.split(c)`: the substrings between the occurrences of c.
RECURSIVE Split(_, _)
Split(s, c) ==
    IF ~Contains(s, c) THEN <<s>>
    ELSE LET i == CHOOSE i \in 1 .. Len(s) :
                      s[i] = c /\ \A j \in 1 .. (i - 1) : s[j] # c
         IN  <<SubSeq(s, 1, i - 1)>> \o Split(SubSeq(s, i + 1, Len(s)), c)

\* The loop over parts: numbers holds the parts converted before the first
\* part that does not convert.
RECURSIVE parse_numbers(_)
parse_numbers(ps) ==
    IF ps = <<>> THEN [ok |-> TRUE, numbers |-> <<>>]
    ELSE LET n == ParseU16(Head(ps))
         IN  IF ~n.ok THEN [ok |-> FALSE, numbers |-> <<>>]
             ELSE LET rest == parse_numbers(Tail(ps))
                  IN  [ok |-> rest.ok, numbers |-> <<n.val>> \o rest.numbers]

parse_parts(s) ==
    IF find_separator(s) = "None" THEN <<>> ELSE Split(s, find_separator(s))

parse_count_first(s) ==
    IF find_separator(s) = "None" THEN Err("SeparatorNotFound")
    ELSE IF Len(parse_parts(s)) # 3 THEN Err("InvalidPartsCount")
    ELSE LET ns == parse_numbers(parse_parts(s))
         IN  IF ~ns.ok THEN Err("NumberConversionError")
             ELSE build(ns.numbers[3], AsU8(ns.numbers[2]), AsU8(ns.numbers[1]))

parse(s) ==
    IF find_separator(s) = "None" THEN Err("SeparatorNotFound")
    ELSE LET ns == parse_numbers(parse_parts(s))
         IN  IF ~ns.ok THEN Err("NumberConversionError")
             ELSE IF Len(ns.numbers) # 3 THEN Err("InvalidPartsCount")
             ELSE build(ns.numbers[3], AsU8(ns.numbers[2]), AsU8(ns.numbers[1]))

-----------------------------------------------------------------------------
(* src/cli.rs and src/main.rs: the two birthday validators *)

cli_future_message == "Your birthday cannot be in the future."

main_future_message == "Your birthday can not be in the future."

cli_error_message(e) ==
    CASE e = "SeparatorNotFound" ->
             "Use '/', or '.', or '-', or whitespace as separator between day, month and year."
      [] e = "InvalidPartsCount" -> "Invalid should be DD/MM/YYYY - day, month and year."
      [] e = "NumberConversionError" -> "Invalid number."
      [] e = "InvalidYear" -> "Invalid year."
      [] e = "InvalidMonth" -> "Invalid month."
      [] e = "InvalidDay" -> "Invalid day."

main_error_message(e) ==
    CASE e = "SeparatorNotFound" ->
             "Use '/', or '.', or '-', or whitespace as separator between day, month and year."
      [] e = "InvalidPartsCount" -> "Only a day, month and year should be entered."
      [] e = "NumberConversionError" -> "Invalid number."
      [] e = "InvalidYear" -> "Invalid year."
      [] e = "InvalidMonth" -> "Invalid month."
      [] e = "InvalidDay" -> "Invalid day."

\* cli::parse_birthday, with t the value of Date::today().
cli_parse_birthday(s, t) ==
    LET r == parse(s)
    IN  IF ~IsOk(r) THEN Err(cli_error_message(r.err))
        ELSE IF DateLt(t, r.val) THEN Err(cli_future_message)
        ELSE Ok(r.val)

main_parse_birthday_no_day(s, t) ==
    LET r == parse(s)
        b == r.val
    IN  IF ~IsOk(r) THEN Err(main_error_message(r.err))
        ELSE IF t.year < b.year THEN Err(main_future_message)
        ELSE IF t.year = b.year /\ t.month < b.month THEN Err(main_future_message)
        ELSE Ok(b)

\* parse_birthday of main.rs, with t the value of Date::today().
main_parse_birthday(s, t) ==
    LET r == parse(s)
        b == r.val
    IN  IF ~IsOk(r) THEN Err(main_error_message(r.err))
        ELSE IF t.year < b.year THEN Err(main_future_message)
        ELSE IF t.year = b.year /\ t.month < b.month THEN Err(main_future_message)
        ELSE IF t.month = b.month /\ t.day < b.day THEN Err(main_future_message)
        ELSE Ok(b)

-----------------------------------------------------------------------------
(* src/cli.rs and src/main.rs: input and the value ask_birthday returns *)

\* The whitespace characters the texts of the model hold.
WhiteSpace == {" ", "\t", "\n", "\r"}

\* `s.trim()`: the text without its leading and trailing whitespace.
RECURSIVE Trim(_)
Trim(s) ==
    IF s = <<>> THEN s
    ELSE IF Head(s) \in WhiteSpace THEN Trim(Tail(s))
    ELSE IF s[Len(s)] \in WhiteSpace THEN Trim(SubSeq(s, 1, Len(s) - 1))
    ELSE s

\* input(): the next line of standard input, trimmed; at end of input
\* read_line reads nothing and the line is empty.
input(lines) == IF lines = <<>> THEN <<>> ELSE Trim(Head(lines))

\* `birthday.years_from(Date::today()) as u8`
ask_birthday_age(b, t) ==
    LET a == years_from(b, t)
    IN  IF IsOk(a) THEN Ok(AsU8(a.val)) ELSE a

-----------------------------------------------------------------------------
(* src/user.rs.  The name of a User is held as the 64-bit value            *)
(* DefaultHasher gives for it, the only use the engine makes of the name.   *)

\* User::new(): birthday 1 January 1970, name "None", whose hash is h.
new_user(h) == [birthday |-> MkDate(1970, 1, 1), name |-> h]

set_birthday(u, b) == [u EXCEPT !.birthday = b]

set_name(u, n) == [u EXCEPT !.name = n]

\* `s.finish() as u16`
calculate_hash(u) == AsU16(u.name)

years_old(u, t) == years_from(u.birthday, t)

get_years_left_zero_based(u, t) ==
    LET a == years_old(u, t)
        max_left == SubU16(MAX_YEARS_OLD, a.val)
    IN  IF ~IsOk(a) THEN a
        ELSE IF max_left.panic THEN PanicN("attempt to subtract with overflow")
        ELSE IF max_left.val = 0
        THEN PanicN("attempt to calculate the remainder with a divisor of zero")
        ELSE Ok(calculate_hash(u) % max_left.val)

get_years_left(u, t) ==
    LET a == years_old(u, t)
        max_left == SubU16(MAX_YEARS_OLD, a.val)
    IN  IF ~IsOk(a) THEN a
        ELSE IF max_left.panic THEN PanicN("attempt to subtract with overflow")
        ELSE IF max_left.val = 0
        THEN PanicN("attempt to calculate the remainder with a divisor of zero")
        ELSE LET r == AddU16(calculate_hash(u) % max_left.val, 1)
             IN  IF r.panic THEN PanicN("attempt to add with overflow")
                 ELSE Ok(r.val)

get_death_date(u, t) ==
    LET hash == calculate_hash(u)
        left == get_years_left(u, t)
        y == AddU16(t.year, left.val)
        m == (hash % 12) + 1
        date0 == build(y.val, m, 1)
        d == (hash % get_max_day(date0.val)) + 1
    IN  IF ~IsOk(left) THEN Panic(left.err)
        ELSE IF y.panic THEN Panic("attempt to add with overflow")
        ELSE IF ~IsOk(date0) THEN Panic("called Result::unwrap() on an Err value")
        ELSE IF ~IsOk(build(y.val, m, d))
        THEN Panic("called Result::unwrap() on an Err value")
        ELSE build(y.val, m, d)


\* The list local to get_danger.
dangers ==
    <<"cars", "illness", "height", "darkness", "fire", "water", "nature",
      "building", "electricity", "explosions", "food", "animals",
      "temperature", "weapons">>

\* get_danger indexing by the month number of the death date.
get_danger_by_month(u) == dangers[(calculate_hash(u) % 12) + 1]

\* `dangers[(self.calculate_hash() % (dangers.len() as u16)) as usize]`,
\* the sequence being indexed from 1.
get_danger(u) == dangers[(calculate_hash(u) % AsU16(Len(dangers))) + 1]

-----------------------------------------------------------------------------
(* src/lib.rs: the death reasons *)

default_death_reasons ==
    <<"cars", "illness", "height", "darkness", "fire", "water", "nature",
      "construction", "electricity", "explosions", "food", "animals",
      "temperature", "weapons">>

\* `contents.lines()`: the text up to each "\n", without that "\n" and
\* without a "\r" before it; a last line needs no line ending.
RECURSIVE lines(_)
lines(s) ==
    IF s = <<>> THEN <<>>
    ELSE IF ~Contains(s, "\n") THEN <<s>>
    ELSE LET i == CHOOSE i \in 1 .. Len(s) :
                      s[i] = "\n" /\ \A j \in 1 .. (i - 1) : s[j] # "\n"
             line == IF i > 1 /\ s[i - 1] = "\r" THEN SubSeq(s, 1, i - 2)
                     ELSE SubSeq(s, 1, i - 1)
         IN  <<line>> \o lines(SubSeq(s, i + 1, Len(s)))

\* The loop over the lines with the trimming left out.
RECURSIVE push_lines_untrimmed(_)
push_lines_untrimmed(ls) ==
    IF ls = <<>> THEN <<>>
    ELSE LET line == Head(ls)
         IN  (IF Len(line) > 0 THEN <<line>> ELSE <<>>)
                 \o push_lines_untrimmed(Tail(ls))

\* The loop over the lines: res holds the trimmed lines of length > 0.
RECURSIVE push_lines(_)
push_lines(ls) ==
    IF ls = <<>> THEN <<>>
    ELSE LET line == Trim(Head(ls))
         IN  (IF Len(line) > 0 THEN <<line>> ELSE <<>>) \o push_lines(Tail(ls))

\* fp is the Option<PathBuf>; f is what fs::read_to_string finds at the path:
\* <<contents>>, or <<>> when the read fails.
read_death_reasons(fp, f) ==
    IF fp = <<>> THEN OkList(default_death_reasons)
    ELSE IF f = <<>> THEN ErrIo("read_to_string")
    ELSE LET res == push_lines(lines(f[1]))
         IN  IF Len(res) = 0 THEN ErrIo("File is empty") ELSE OkList(res)

-----------------------------------------------------------------------------
(* The calendar module driven directly: build, then next_day / next_month *)

MaxSteps == 2

Years == {0, 1, 4, 100, 400, 1900, 2015, 2016, U16Max}
Months == (0 .. 13) \cup {U8Max}
Days == (0 .. 32) \cup {U8Max}

\* The variables of the operations a specification does not run.
IdleDate ==
    /\ year = 0 /\ month = 0 /\ day = 0
    /\ date = Err("None") /\ prev = NoDate /\ steps = 0

IdleParse ==
    /\ text = <<>> /\ sep = "None" /\ parts = <<>> /\ numbers = <<>>
    /\ parsed = Err("None")

IdleBirthday ==
    /\ today = NoDate /\ verdict = Err("None")

IdleUser ==
    /\ user = [birthday |-> NoDate, name |-> 0]
    /\ age = PanicN("None") /\ years_left = PanicN("None")
    /\ death_date = Err("None")
    /\ danger = <<>>

IdleAsk ==
    /\ entry = "None" /\ flag = <<>> /\ stdin = <<>> /\ prompts = 0
    /\ errors = <<>> /\ exit_code = <<>> /\ birthday = NoDate
    /\ ask_age = PanicN("None")

IdleYears ==
    /\ other = NoDate /\ elapsed = PanicN("None") /\ elapsed_back = PanicN("None")

IdleReasons ==
    /\ file_path = <<>> /\ file = <<>> /\ reasons = NoReasons

InitDate ==
    /\ profile \in Profiles
    /\ pc = "start"
    /\ year \in Years
    /\ month \in Months
    /\ day \in Days
    /\ date = Err("None")
    /\ prev = NoDate
    /\ steps = 0
    /\ IdleParse
    /\ IdleBirthday
    /\ IdleUser
    /\ IdleAsk
    /\ IdleYears
    /\ IdleReasons

Build ==
    /\ pc = "start"
    /\ date' = build(year, month, day)
    /\ pc' = "build"
    /\ UNCHANGED <<profile, yearsVars, reasonsVars, year, month, day, prev, steps, parseVars, birthdayVars, userVars, askVars>>

NextDay ==
    /\ pc \in {"build", "next_day", "next_month"}
    /\ IsOk(date)
    /\ steps < MaxSteps
    /\ date' = next_day(date.val)
    /\ prev' = date.val
    /\ steps' = steps + 1
    /\ pc' = "next_day"
    /\ UNCHANGED <<profile, yearsVars, reasonsVars, year, month, day, parseVars, birthdayVars, userVars, askVars>>

NextMonth ==
    /\ pc \in {"build", "next_day", "next_month"}
    /\ IsOk(date)
    /\ steps < MaxSteps
    /\ date' = next_month(date.val)
    /\ prev' = date.val
    /\ steps' = steps + 1
    /\ pc' = "next_month"
    /\ UNCHANGED <<profile, yearsVars, reasonsVars, year, month, day, parseVars, birthdayVars, userVars, askVars>>

NextDateOps == Build \/ NextDay \/ NextMonth

SpecDate == InitDate /\ [][NextDateOps]_vars

-----------------------------------------------------------------------------
(* Date::years_from on a pair of dates, called on either with the other *)

PairYears == {1, 2015, 2016, 2017, U16Max}
PairMonthDays == {<<1, 1>>, <<2, 28>>, <<2, 29>>, <<3, 1>>, <<6, 15>>, <<12, 31>>}

\* The dates build accepts among those of PairYears and PairMonthDays.
PairDates ==
    {build(y, md[1], md[2]).val : y \in PairYears, md \in PairMonthDays}
        \ {NoDate}

InitYears ==
    /\ profile \in Profiles
    /\ pc = "start"
    /\ date \in {Ok(d) : d \in PairDates}
    /\ other \in PairDates
    /\ elapsed = PanicN("None")
    /\ elapsed_back = PanicN("None")
    /\ year = 0 /\ month = 0 /\ day = 0 /\ prev = NoDate /\ steps = 0
    /\ IdleParse
    /\ IdleBirthday
    /\ IdleUser
    /\ IdleAsk
    /\ IdleReasons

\* date.years_from(other)
YearsFrom ==
    /\ pc = "start"
    /\ elapsed' = years_from(date.val, other)
    /\ pc' = "years_from"
    /\ UNCHANGED <<profile, dateVars, parseVars, birthdayVars, userVars, askVars,
                   reasonsVars, other, elapsed_back>>

\* other.years_from(date)
YearsFromBack ==
    /\ pc = "years_from"
    /\ elapsed_back' = years_from(other, date.val)
    /\ pc' = "years_from_back"
    /\ UNCHANGED <<profile, dateVars, parseVars, birthdayVars, userVars, askVars,
                   reasonsVars, other, elapsed>>

NextYears == YearsFrom \/ YearsFromBack

SpecYears == InitYears /\ [][NextYears]_vars

-----------------------------------------------------------------------------
(* read_death_reasons on no path, on an unreadable file and on bounded files *)

MaxFileLen == 5

FileChars == {"a", " ", "\n", "\r"}

\* Every text of at most MaxFileLen characters, and some longer files.
FileContents ==
    UNION {[1 .. n -> FileChars] : n \in 0 .. MaxFileLen} \cup
    {<<"a", "b", "\r", "\n", "\n", " ", "\t", "b", " ", " ", "a", "\t", "\n", "\t", "\n", "b">>,
     <<"b", "\r", "a", "\n", "\r", "\n", "a", " ", "b", "\r">>,
     <<"\t", "\n", " ", "\r", "\n", "\r", "\n">>}

InitReasons ==
    /\ profile = "release"
    /\ pc = "start"
    /\ file_path \in {<<>>, <<"reasons.txt">>}
    /\ file \in {<<>>} \cup {<<c>> : c \in FileContents}
    /\ reasons = NoReasons
    /\ IdleDate
    /\ IdleParse
    /\ IdleBirthday
    /\ IdleUser
    /\ IdleAsk
    /\ IdleYears

ReadDeathReasons ==
    /\ pc = "start"
    /\ reasons' = read_death_reasons(file_path, file)
    /\ pc' = "read_death_reasons"
    /\ UNCHANGED <<profile, dateVars, parseVars, birthdayVars, userVars, askVars,
                   yearsVars, file_path, file>>

SpecReasons == InitReasons /\ [][ReadDeathReasons]_vars

-----------------------------------------------------------------------------
(* Date::parse driven directly on a bounded set of texts *)

MaxParts == 4

\* The decimal numeral of n.
RECURSIVE ToStr(_)
ToStr(n) ==
    IF n < 10 THEN <<DigitChars[n + 1]>>
    ELSE ToStr(n \div 10) \o <<DigitChars[(n % 10) + 1]>>

\* The parts joined, js[i] standing between part i and part i + 1.
RECURSIVE Join(_, _)
Join(ps, js) ==
    IF Len(ps) = 1 THEN ps[1]
    ELSE ps[1] \o <<js[1]>> \o Join(Tail(ps), Tail(js))

JoinChars == {".", "/", "-", " ", "_"}

JunkParts == {<<>>, <<"x">>, <<"+", "7">>, <<"-", "7">>, <<"0", "7">>, <<"+">>}

DayParts == {ToStr(n) : n \in {0, 1, 28, 29, 30, 31, 32, 257, 285, 288}} \cup JunkParts
MonthParts == {ToStr(n) : n \in {0, 1, 2, 4, 12, 13, 256, 258, 268, 269}} \cup JunkParts
YearParts == {ToStr(n) : n \in {0, 1, 1900, 2015, 2016, U16Max, U16Max + 1}} \cup JunkParts

\* Three parts, day first, one separator throughout.
DateTexts ==
    {Join(<<d, m, y>>, <<j, j>>) :
        d \in DayParts, m \in MonthParts, y \in YearParts, j \in {"/"}}

SmallParts == {ToStr(1), <<"x">>, ToStr(U16Max + 1)}

\* The ways to join n parts: one character after the first part and another
\* between the rest, or one character before the last part and another
\* between the rest (every choice of characters, for up to three parts).
Joins(n) ==
    {[i \in 1 .. (n - 1) |-> IF i = 1 THEN a ELSE b] : a \in JoinChars, b \in JoinChars}
    \cup {[i \in 1 .. (n - 1) |-> IF i = n - 1 THEN a ELSE b] : a \in JoinChars, b \in JoinChars}

\* One to MaxParts parts, with the join characters between them.
MixedTexts ==
    UNION {
        {Join(ps, js) : ps \in [1 .. n -> SmallParts], js \in Joins(n)} :
        n \in 1 .. MaxParts}

Texts == DateTexts \cup MixedTexts

InitParse ==
    /\ profile = "release"
    /\ pc = "start"
    /\ text \in Texts
    /\ sep = "None" /\ parts = <<>> /\ numbers = <<>>
    /\ parsed = Err("None")
    /\ IdleDate
    /\ IdleBirthday
    /\ IdleUser
    /\ IdleAsk
    /\ IdleYears
    /\ IdleReasons

Parse ==
    /\ pc = "start"
    /\ sep' = find_separator(text)
    /\ parts' = parse_parts(text)
    /\ numbers' = parse_numbers(parse_parts(text)).numbers
    /\ parsed' = parse(text)
    /\ pc' = "parse"
    /\ UNCHANGED <<profile, yearsVars, reasonsVars, text, dateVars, birthdayVars, userVars, askVars>>

SpecParse == InitParse /\ [][Parse]_vars

-----------------------------------------------------------------------------
(* The two birthday validators driven directly *)

Todays == {MkDate(2016, 2, 29), MkDate(2026, 6, 15), MkDate(2026, 11, 4)}

BirthdayTexts ==
    {Join(<<ToStr(d), ToStr(m), ToStr(y)>>, <<j, j>>) :
        d \in {1, 4, 5, 15, 16, 28, 29, 30, 32},
        m \in {1, 2, 6, 7, 11, 12, 13},
        y \in {0, 1900, 2015, 2016, 2025, 2026, 2027},
        j \in {"/", " "}}
    \cup {ToStr(23092015), Join(<<ToStr(23), ToStr(92015)>>, <<".">>),
          Join(<<ToStr(1), <<"x">>, ToStr(2015)>>, <<"-", "-">>),
          Join(<<ToStr(1), ToStr(2), ToStr(20), ToStr(15)>>, <<".", ".", ".">>)}

InitBirthday ==
    /\ profile = "release"
    /\ pc = "start"
    /\ today \in Todays
    /\ text \in BirthdayTexts
    /\ sep = "None" /\ parts = <<>> /\ numbers = <<>>
    /\ parsed = Err("None")
    /\ verdict = Err("None")
    /\ IdleDate
    /\ IdleUser
    /\ IdleAsk
    /\ IdleYears
    /\ IdleReasons

CliParseBirthday ==
    /\ pc = "start"
    /\ parsed' = parse(text)
    /\ verdict' = cli_parse_birthday(text, today)
    /\ pc' = "cli_parse_birthday"
    /\ UNCHANGED <<profile, yearsVars, reasonsVars, text, sep, parts, numbers, today, dateVars, userVars, askVars>>

MainParseBirthday ==
    /\ pc = "start"
    /\ parsed' = parse(text)
    /\ verdict' = main_parse_birthday(text, today)
    /\ pc' = "main_parse_birthday"
    /\ UNCHANGED <<profile, yearsVars, reasonsVars, text, sep, parts, numbers, today, dateVars, userVars, askVars>>

NextBirthday == CliParseBirthday \/ MainParseBirthday

SpecBirthday == InitBirthday /\ [][NextBirthday]_vars

-----------------------------------------------------------------------------
(* The prediction engine driven directly: a user is made, given a birthday  *)
(* and a name, and asked for its years left and its death date.             *)

MaxAge == 101
MaxCalls == 2

UserTodays == {MkDate(2026, 11, 4), MkDate(2024, 2, 29), MkDate(U16Max, 1, 31)}

BirthMonthDays == {<<1, 1>>, <<2, 29>>, <<6, 15>>, <<11, 4>>, <<11, 5>>, <<12, 31>>}

\* The dates Date::build gives at most MaxAge calendar years before t.
Birthdays(t) ==
    {b \in {MkDate(t.year - k, md[1], md[2]) : k \in 0 .. MaxAge, md \in BirthMonthDays} :
        b.year >= 0 /\ IsOk(build(b.year, b.month, b.day))}

NameHashes ==
    (0 .. 12) \cup {27, 28, 29, 30, 31, 98, 99, 100, 101, 2024, U16Max,
                    U16Max + 1 + 59, 3 * (U16Max + 1) + 30}

\* The values the hash of the default name "None" is drawn from.
NoneNameHashes == {857, 2 * (U16Max + 1) + 857}

InitUser ==
    /\ profile \in Profiles
    /\ pc = "new"
    /\ today \in UserTodays
    /\ user \in {new_user(h) : h \in NoneNameHashes}
    /\ age = PanicN("None") /\ years_left = PanicN("None")
    /\ death_date = Err("None")
    /\ verdict = Err("None")
    /\ IdleDate
    /\ IdleParse
    /\ IdleAsk
    /\ danger = <<>>
    /\ IdleYears
    /\ IdleReasons

SetBirthday ==
    /\ pc = "new"
    /\ \E b \in Birthdays(today) : user' = set_birthday(user, b)
    /\ pc' = "set_birthday"
    /\ UNCHANGED <<profile, yearsVars, reasonsVars, dateVars, parseVars, birthdayVars, askVars, age, years_left, death_date, danger>>

SetName ==
    /\ pc = "set_birthday"
    /\ \E n \in NameHashes : user' = set_name(user, n)
    /\ pc' = "set_name"
    /\ UNCHANGED <<profile, yearsVars, reasonsVars, dateVars, parseVars, birthdayVars, askVars, age, years_left, death_date, danger>>

GetYearsLeft ==
    /\ pc = "set_name"
    /\ age' = years_old(user, today)
    /\ years_left' = get_years_left(user, today)
    /\ pc' = "get_years_left"
    /\ UNCHANGED <<profile, yearsVars, reasonsVars, dateVars, parseVars, birthdayVars, askVars, user, death_date, danger>>

GetDeathDate ==
    /\ pc = "set_name"
    /\ age' = years_old(user, today)
    /\ years_left' = get_years_left(user, today)
    /\ death_date' = get_death_date(user, today)
    /\ pc' = "get_death_date"
    /\ UNCHANGED <<profile, yearsVars, reasonsVars, dateVars, parseVars, birthdayVars, askVars, user, danger>>

\* One more call of get_danger on the same user.
GetDanger ==
    /\ pc \in {"set_name", "get_danger"}
    /\ Len(danger) < MaxCalls
    /\ danger' = Append(danger, get_danger(user))
    /\ pc' = "get_danger"
    /\ UNCHANGED <<profile, yearsVars, reasonsVars, dateVars, parseVars, birthdayVars,
                   askVars, user, age, years_left, death_date>>

NextUser == SetBirthday \/ SetName \/ GetYearsLeft \/ GetDeathDate \/ GetDanger

SpecUser == InitUser /\ [][NextUser]_vars

-----------------------------------------------------------------------------
(* The program: ask_birthday (by flag or by prompt loop), then the          *)
(* prediction for the user with the accepted birthday.                      *)

MaxLines == 2

\* The prompt loop is followed for at most MaxPrompts turns; at the end of
\* standard input every further turn reads an empty line.
MaxPrompts == 3

MainTodays == {MkDate(2026, 11, 4), MkDate(2024, 2, 29)}

\* Lines a user may type, and texts a flag may hold.
Lines ==
    {Join(<<ToStr(4), ToStr(11), ToStr(2026)>>, <<"/", "/">>),
     Join(<<ToStr(5), ToStr(11), ToStr(2026)>>, <<".", ".">>),
     Join(<<ToStr(29), ToStr(2), ToStr(2024)>>, <<"-", "-">>),
     Join(<<ToStr(5), ToStr(11), ToStr(1926)>>, <<"/", "/">>),
     Join(<<ToStr(4), ToStr(11), ToStr(1926)>>, <<"/", "/">>),
     Join(<<ToStr(1), ToStr(1), ToStr(1900)>>, <<"/", "/">>),
     Join(<<ToStr(1), ToStr(1), ToStr(1770)>>, <<"/", "/">>),
     Join(<<<<" ">> \o ToStr(15), ToStr(6), ToStr(2000) \o <<" ">>>>, <<"/", "/">>),
     Join(<<ToStr(15), ToStr(6), ToStr(2000)>>, <<" ", " ">>),
     Join(<<ToStr(31), ToStr(2), ToStr(2000)>>, <<"/", "/">>),
     ToStr(15062000),
     <<>>}

\* The sequences of at most n lines.
RECURSIVE LineSeqs(_)
LineSeqs(n) ==
    IF n = 0 THEN {<<>>}
    ELSE LineSeqs(n - 1) \cup
         {<<l>> \o ls : l \in Lines, ls \in {x \in LineSeqs(n - 1) : Len(x) = n - 1}}

InitMain ==
    /\ profile \in Profiles
    /\ pc = "main"
    /\ today \in MainTodays
    /\ entry \in {"main", "cli"}
    /\ \/ entry = "main" /\ flag \in {<<l>> : l \in Lines} /\ stdin = <<>>
       \/ flag = <<>> /\ stdin \in LineSeqs(MaxLines)
    /\ prompts = 0
    /\ errors = <<>>
    /\ exit_code = <<>>
    /\ birthday = NoDate
    /\ ask_age = PanicN("None")
    /\ verdict = Err("None")
    /\ user \in {new_user(h) : h \in NoneNameHashes}
    /\ age = PanicN("None") /\ years_left = PanicN("None")
    /\ death_date = Err("None")
    /\ IdleDate
    /\ IdleParse
    /\ danger = <<>>
    /\ IdleYears
    /\ IdleReasons

\* main.rs ask_birthday with the birthday given by flag: one validation, and
\* on an error the message and process::exit(1).
AskBirthdayFlag ==
    /\ pc = "main"
    /\ entry = "main"
    /\ flag # <<>>
    /\ text' = flag[1]
    /\ parsed' = parse(flag[1])
    /\ verdict' = main_parse_birthday(flag[1], today)
    /\ IF IsOk(verdict')
       THEN /\ birthday' = verdict'.val
            /\ ask_age' = ask_birthday_age(verdict'.val, today)
            /\ pc' = "asked"
            /\ UNCHANGED <<errors, exit_code>>
       ELSE /\ errors' = Append(errors, [stream |-> "stdout", msg |-> verdict'.err])
            /\ exit_code' = <<1>>
            /\ pc' = "exit"
            /\ UNCHANGED <<birthday, ask_age>>
    /\ UNCHANGED <<profile, yearsVars, reasonsVars, sep, parts, numbers, today, dateVars, userVars,
                   entry, flag, stdin, prompts>>

\* The prompt loop leaving after its first turn, whatever the verdict.
AskBirthdayPromptMainOnce ==
    /\ pc \in {"main", "prompt"}
    /\ entry = "main"
    /\ flag = <<>>
    /\ prompts < MaxPrompts
    /\ prompts' = prompts + 1
    /\ text' = input(stdin)
    /\ stdin' = IF stdin = <<>> THEN stdin ELSE Tail(stdin)
    /\ parsed' = parse(text')
    /\ verdict' = main_parse_birthday(text', today)
    /\ IF IsOk(verdict')
       THEN /\ birthday' = verdict'.val
            /\ ask_age' = ask_birthday_age(verdict'.val, today)
            /\ pc' = "asked"
            /\ UNCHANGED errors
       ELSE /\ errors' = Append(errors, [stream |-> "stdout", msg |-> verdict'.err])
            /\ pc' = "asked"
            /\ UNCHANGED <<birthday, ask_age>>
    /\ UNCHANGED <<profile, yearsVars, reasonsVars, sep, parts, numbers, today, dateVars, userVars,
                   entry, flag, exit_code>>

\* One turn of the prompt loop of main.rs ask_birthday: prompt, read a line,
\* validate; on an error print it and loop, otherwise return the age.
AskBirthdayPromptMain ==
    /\ pc \in {"main", "prompt"}
    /\ entry = "main"
    /\ flag = <<>>
    /\ prompts < MaxPrompts
    /\ prompts' = prompts + 1
    /\ text' = input(stdin)
    /\ stdin' = IF stdin = <<>> THEN stdin ELSE Tail(stdin)
    /\ parsed' = parse(text')
    /\ verdict' = main_parse_birthday(text', today)
    /\ IF IsOk(verdict')
       THEN /\ birthday' = verdict'.val
            /\ ask_age' = ask_birthday_age(verdict'.val, today)
            /\ pc' = "asked"
            /\ UNCHANGED errors
       ELSE /\ errors' = Append(errors, [stream |-> "stdout", msg |-> verdict'.err])
            /\ pc' = "prompt"
            /\ UNCHANGED <<birthday, ask_age>>
    /\ UNCHANGED <<profile, yearsVars, reasonsVars, sep, parts, numbers, today, dateVars, userVars,
                   entry, flag, exit_code>>

\* One turn of the loop of cli::ask_birthday: print_error(e, 0) does not exit.
AskBirthdayPromptCli ==
    /\ pc \in {"main", "prompt"}
    /\ entry = "cli"
    /\ prompts < MaxPrompts
    /\ prompts' = prompts + 1
    /\ text' = input(stdin)
    /\ stdin' = IF stdin = <<>> THEN stdin ELSE Tail(stdin)
    /\ parsed' = parse(text')
    /\ verdict' = cli_parse_birthday(text', today)
    /\ IF IsOk(verdict')
       THEN /\ birthday' = verdict'.val
            /\ ask_age' = ask_birthday_age(verdict'.val, today)
            /\ pc' = "asked"
            /\ UNCHANGED errors
       ELSE /\ errors' = Append(errors, [stream |-> "stderr", msg |-> verdict'.err])
            /\ pc' = "prompt"
            /\ UNCHANGED <<birthday, ask_age>>
    /\ UNCHANGED <<profile, yearsVars, reasonsVars, sep, parts, numbers, today, dateVars, userVars,
                   entry, flag, exit_code>>

\* The prediction for the user with the accepted birthday and some name.
Predict ==
    /\ pc = "asked"
    /\ \E n \in NoneNameHashes :
           user' = set_name(set_birthday(user, birthday), n)
    /\ age' = years_old(user', today)
    /\ years_left' = get_years_left(user', today)
    /\ death_date' = get_death_date(user', today)
    /\ pc' = "predict"
    /\ UNCHANGED <<profile, yearsVars, reasonsVars, dateVars, parseVars, birthdayVars, askVars, danger>>

NextMain == AskBirthdayFlag \/ AskBirthdayPromptMain \/ AskBirthdayPromptCli \/ Predict

SpecMain == InitMain /\ [][NextMain]_vars

-----------------------------------------------------------------------------
(* The calendar as the specification states it *)

SpecLeap(y) == (y % 4 = 0 /\ y % 100 # 0) \/ y % 400 = 0

SpecMaxDay(y, m) ==
    CASE m \in {1, 3, 5, 7, 8, 10, 12} -> 31
      [] m \in {4, 6, 9, 11} -> 30
      [] m = 2 -> IF SpecLeap(y) THEN 29 ELSE 28
      [] OTHER -> 0

SpecValid(y, m, d) ==
    /\ y >= 1
    /\ 1 <= m /\ m <= 12
    /\ 1 <= d /\ d <= SpecMaxDay(y, m)

ValidDate(d) == SpecValid(d.year, d.month, d.day)

\* What build is specified to return on (y, m, d).
SpecBuild(y, m, d) ==
    IF SpecValid(y, m, d) THEN Ok(MkDate(y, m, d))
    ELSE IF y = 0 THEN Err("InvalidYear")
    ELSE IF m < 1 \/ m > 12 THEN Err("InvalidMonth")
    ELSE Err("InvalidDay")

-----------------------------------------------------------------------------
(* C1: Date::build returns the date with exactly the given fields iff       *)
(* year >= 1, 1 <= month <= 12 and 1 <= day <= maxDay(year, month);         *)
(* otherwise InvalidYear when year = 0, else InvalidMonth when the month is *)
(* out of range, else InvalidDay.                                           *)
C1_BuildValidates ==
    pc = "build" =>
        /\ IsOk(date) <=> SpecValid(year, month, day)
        /\ IsOk(date) => date.val = MkDate(year, month, day)
        /\ date = SpecBuild(year, month, day)

C1_Witness ==
    /\ pc = "build"
    /\ IsOk(date)
    /\ date.val = MkDate(2016, 2, 29)

-----------------------------------------------------------------------------
(* C10: for every valid date d, next_day(d) is (year, month, day+1) when    *)
(* day < maxDay, (year, month+1, 1) when day = maxDay and month < 12, and   *)
(* (year+1, 1, 1) on 31 December; the result is a valid date and the least  *)
(* date strictly greater than d.                                            *)
SpecNextDay(d) ==
    IF d.day < SpecMaxDay(d.year, d.month) THEN MkDate(d.year, d.month, d.day + 1)
    ELSE IF d.month < 12 THEN MkDate(d.year, d.month + 1, 1)
    ELSE MkDate(d.year + 1, 1, 1)

\* No valid date lies strictly between a and b.
NoDateBetween(a, b) ==
    \A y \in {a.year, b.year} : \A m \in 1 .. 12 : \A d \in 1 .. 31 :
        ValidDate(MkDate(y, m, d)) =>
            ~(DateLt(a, MkDate(y, m, d)) /\ DateLt(MkDate(y, m, d), b))

C10_NextDay ==
    (pc = "next_day" /\ ValidDate(prev)) =>
        /\ IsOk(date)
        /\ date.val = SpecNextDay(prev)
        /\ ValidDate(date.val)
        /\ DateLt(prev, date.val)
        /\ NoDateBetween(prev, date.val)

-----------------------------------------------------------------------------
(* C2: when the three parts of the text are non-negative integers d, m, y,  *)
(* Date::parse returns exactly build(y, m, d) on those integers: a month    *)
(* part above 12 always yields InvalidMonth and a day part above maxDay     *)
(* always yields InvalidDay, parts larger than 255 included.                *)
IsNumeral(p) == p # <<>> /\ \A i \in 1 .. Len(p) : IsDigit(p[i])

C2_ParseDelegatesToBuild ==
    (/\ pc = "parse"
     /\ Len(parts) = 3
     /\ \A i \in 1 .. 3 : IsNumeral(parts[i]) /\ DecimalValue(parts[i]) <= U16Max)
    => parsed = SpecBuild(DecimalValue(parts[3]), DecimalValue(parts[2]),
                          DecimalValue(parts[1]))

-----------------------------------------------------------------------------
(* C3, as stated: whenever the split yields a number of parts other than 3, *)
(* Date::parse fails with InvalidPartsCount, the count being checked before *)
(* any part is converted.                                                   *)
C3_CountCheckedFirst ==
    (pc = "parse" /\ sep # "None" /\ Len(parts) # 3)
    => parsed = Err("InvalidPartsCount")

(* C3, amended: when the split yields a number of parts other than 3,       *)
(* Date::parse fails with InvalidPartsCount if every part converts to a u16 *)
(* and with NumberConversionError otherwise: the parts are converted before *)
(* the count is checked.                                                    *)
C3_CountCheckedAfterConversion ==
    (pc = "parse" /\ sep # "None" /\ Len(parts) # 3)
    => IF \A i \in 1 .. Len(parts) : ParseU16(parts[i]).ok
       THEN parsed = Err("InvalidPartsCount")
       ELSE parsed = Err("NumberConversionError")

C3_Witness ==
    /\ pc = "parse"
    /\ Len(parts) = 4
    /\ Len(numbers) = 4
    /\ parsed = Err("InvalidPartsCount")

-----------------------------------------------------------------------------
(* C4: Date::parse splits on the first of '.', '/', '-', ' ' (in that       *)
(* order) that occurs in the text and on no other character, and fails with *)
(* SeparatorNotFound iff none of the four occurs in the text.               *)
SpecSeparator(s) ==
    CASE Contains(s, ".") -> "."
      [] ~Contains(s, ".") /\ Contains(s, "/") -> "/"
      [] ~Contains(s, ".") /\ ~Contains(s, "/") /\ Contains(s, "-") -> "-"
      [] OTHER -> IF Contains(s, " ") THEN " " ELSE "None"

C4_FirstSeparatorPresent ==
    pc = "parse" =>
        /\ sep = SpecSeparator(text)
        /\ (parsed = Err("SeparatorNotFound")) <=>
               (\A c \in {".", "/", "-", " "} : ~Contains(text, c))
        /\ sep # "None" =>
               /\ Join(parts, [i \in 1 .. (Len(parts) - 1) |-> sep]) = text
               /\ \A i \in 1 .. Len(parts) : ~Contains(parts[i], sep)

\* "1-1/1": '-' comes first in the text, '/' first among the candidates.
C4_Witness ==
    /\ pc = "parse"
    /\ sep = "/"
    /\ text = <<"1", "-", "1", "/", "1">>
    /\ parts = <<(<<"1", "-", "1">>), (<<"1">>)>>
    /\ parsed = Err("NumberConversionError")

-----------------------------------------------------------------------------
(* C5: the birthday validator of main.rs returns the parsed date for every  *)
(* well-formed text whose date is on or before today, and rejects with the  *)
(* 'in the future' message only dates strictly after today in (year, month, *)
(* day) order.                                                              *)
C5_MainAcceptsPast ==
    pc = "main_parse_birthday" =>
        /\ (IsOk(parsed) /\ DateLe(parsed.val, today)) => verdict = Ok(parsed.val)
        /\ verdict = Err(main_future_message) =>
               (IsOk(parsed) /\ DateLt(today, parsed.val))

-----------------------------------------------------------------------------
(* C6: both birthday validators reject every well-formed date strictly      *)
(* after today with their 'birthday cannot be in the future' error, and     *)
(* reject every text Date::parse rejects with the message fixed for that    *)
(* ParseError variant, never with the future-date message.                  *)
SpecFutureMessage ==
    IF pc = "cli_parse_birthday"
    THEN "Your birthday cannot be in the future."
    ELSE "Your birthday can not be in the future."

SpecErrorMessage(e) ==
    CASE e = "SeparatorNotFound" ->
             "Use '/', or '.', or '-', or whitespace as separator between day, month and year."
      [] e = "InvalidPartsCount" ->
             IF pc = "cli_parse_birthday"
             THEN "Invalid should be DD/MM/YYYY - day, month and year."
             ELSE "Only a day, month and year should be entered."
      [] e = "NumberConversionError" -> "Invalid number."
      [] e = "InvalidYear" -> "Invalid year."
      [] e = "InvalidMonth" -> "Invalid month."
      [] e = "InvalidDay" -> "Invalid day."

C6_FutureAndParseErrors ==
    pc \in {"cli_parse_birthday", "main_parse_birthday"} =>
        /\ (IsOk(parsed) /\ DateLt(today, parsed.val)) =>
               verdict = Err(SpecFutureMessage)
        /\ ~IsOk(parsed) =>
               /\ verdict = Err(SpecErrorMessage(parsed.err))
               /\ verdict # Err(SpecFutureMessage)

C6_Witness ==
    /\ pc = "main_parse_birthday"
    /\ today = MkDate(2026, 6, 15)
    /\ parsed = Ok(MkDate(2027, 1, 1))
    /\ verdict = Err(main_future_message)

-----------------------------------------------------------------------------
(* C8: for every identity hash and every age with 0 <= age < MAX_YEARS_OLD, *)
(* get_years_left returns (hash mod (MAX_YEARS_OLD - age)) + 1, which lies  *)
(* in [1, MAX_YEARS_OLD - age].                                             *)
SpecHash == user.name % 65536

SpecYearsLeft == (SpecHash % (100 - age.val)) + 1

C8_YearsLeftInRange ==
    (pc = "get_years_left" /\ IsOk(age) /\ age.val < 100) =>
        /\ years_left = Ok(SpecYearsLeft)
        /\ 1 <= years_left.val
        /\ years_left.val <= 100 - age.val

C8_Witness ==
    /\ pc = "get_years_left"
    /\ age = Ok(0)
    /\ SpecHash = 99
    /\ years_left = Ok(100)

-----------------------------------------------------------------------------
(* C9: for every identity hash, every age < MAX_YEARS_OLD and every valid   *)
(* today, both Date::build calls of get_death_date succeed and the date     *)
(* returned has year = today.year + yearsRemaining, month = (hash mod 12)   *)
(* + 1 and day = (hash mod maxDay(year, month)) + 1, within their ranges.   *)
C9_DeathDateBuilds ==
    (pc = "get_death_date" /\ IsOk(age) /\ age.val < 100 /\ ValidDate(today)) =>
        /\ IsOk(death_date)
        /\ death_date.val.year = today.year + SpecYearsLeft
        /\ death_date.val.month = (SpecHash % 12) + 1
        /\ death_date.val.day =
               (SpecHash % SpecMaxDay(death_date.val.year, death_date.val.month)) + 1
        /\ ValidDate(death_date.val)

-----------------------------------------------------------------------------
(* C7: for every birthday the birthday validator accepts, the age the       *)
(* prediction engine uses is strictly below MAX_YEARS_OLD, so that          *)
(* get_years_left neither takes a modulus by zero nor underflows            *)
(* MAX_YEARS_OLD - age; an age at or above the bound (above 255 included,   *)
(* which the cast to u8 wraps) is rejected before that computation.         *)
C7_AcceptedAgeBelowBound ==
    /\ pc = "asked" =>
           /\ years_from(birthday, today).val < 100
           /\ ask_age.val < 100
    /\ pc = "predict" =>
           /\ age.val < 100
           /\ IsOk(years_left)
           /\ years_left.val <= 100

-----------------------------------------------------------------------------
(* C11: for every valid date d = (y, m, day), next_month(d) is the date     *)
(* with month m + 1 and year y when m < 12, and month 1 and year y + 1      *)
(* when m = 12, its day being min(day, maxDay(new year, new month)); the    *)
(* result is always a valid calendar date.                                  *)
SpecNextMonth(d) ==
    LET y == IF d.month < 12 THEN d.year ELSE d.year + 1
        m == IF d.month < 12 THEN d.month + 1 ELSE 1
        top == SpecMaxDay(y, m)
    IN  MkDate(y, m, IF d.day < top THEN d.day ELSE top)

C11_NextMonth ==
    (pc = "next_month" /\ ValidDate(prev)) =>
        /\ IsOk(date)
        /\ date.val = SpecNextMonth(prev)
        /\ ValidDate(date.val)

-----------------------------------------------------------------------------
(* C16: every Date value reached from a successful build by any sequence    *)
(* of next_day and next_month calls satisfies year >= 1, 1 <= month <= 12   *)
(* and 1 <= day <= maxDay(year, month), at the upper end of the 16-bit      *)
(* year range included.                                                     *)
C16_CalendarInvariant ==
    (pc \in {"build", "next_day", "next_month"} /\ IsOk(date)) => ValidDate(date.val)

-----------------------------------------------------------------------------
(* C12: for every pair of valid dates a and b, a.years_from(b) equals       *)
(* b.years_from(a), and the value is (later.year - earlier.year), minus 1   *)
(* iff the later date's (month, day) is before the earlier date's           *)
(* (month, day); the subtraction never underflows, so the value lies in     *)
(* [0, later.year - earlier.year].                                          *)
DayNumber(d) == (d.year * 12 + (d.month - 1)) * 31 + (d.day - 1)

SpecEarlier(a, b) == IF DayNumber(a) <= DayNumber(b) THEN a ELSE b

SpecLater(a, b) == IF DayNumber(a) <= DayNumber(b) THEN b ELSE a

SpecFullYears(a, b) ==
    LET e == SpecEarlier(a, b)
        l == SpecLater(a, b)
    IN  (l.year - e.year)
            - (IF l.month * 31 + l.day < e.month * 31 + e.day THEN 1 ELSE 0)

C12_YearsFromSymmetric ==
    pc = "years_from_back" =>
        /\ IsOk(elapsed)
        /\ IsOk(elapsed_back)
        /\ elapsed.val = elapsed_back.val
        /\ elapsed.val = SpecFullYears(date.val, other)
        /\ 0 <= elapsed.val
        /\ elapsed.val <= SpecLater(date.val, other).year
                              - SpecEarlier(date.val, other).year

\* A later self and an earlier other whose (month, day) is the larger.
C12_Witness ==
    /\ pc = "years_from_back"
    /\ date.val = MkDate(2017, 2, 28)
    /\ other = MkDate(2015, 12, 31)
    /\ elapsed = Ok(1)
    /\ elapsed_back = Ok(1)

-----------------------------------------------------------------------------
(* C13: for a fixed identity hash and a causes list of length N >= 1, the   *)
(* cause-of-death accessor returns the entry at index (hash mod N) of the   *)
(* list: the result is always one of the N entries and every repeated call  *)
(* on the same profile returns the same entry.                              *)
SpecCauseIndex == SpecHash % Len(dangers)

C13_CauseByHash ==
    pc = "get_danger" =>
        /\ Len(dangers) >= 1
        /\ \A i \in 1 .. Len(danger) :
               /\ danger[i] = dangers[SpecCauseIndex + 1]
               /\ \E k \in 1 .. Len(dangers) : danger[i] = dangers[k]
               /\ danger[i] = danger[1]

\* Two calls on a user whose hash is above the length of the list.
C13_Witness ==
    /\ pc = "get_danger"
    /\ SpecHash = 27
    /\ danger = <<"weapons", "weapons">>

-----------------------------------------------------------------------------
(* C14: read_death_reasons with a file path returns Ok(list) only when the  *)
(* list is non-empty, and then the list is exactly the file's lines in file *)
(* order, each trimmed of leading and trailing whitespace, the lines empty  *)
(* after trimming removed; when no non-blank line remains it returns the    *)
(* 'File is empty' error; with no path it returns the built-in default      *)
(* list, which is non-empty.                                                *)
IsBlank(l) == \A i \in 1 .. Len(l) : l[i] \in WhiteSpace

\* The line from its first to its last character that is not whitespace.
SpecTrim(l) ==
    LET inked == {i \in 1 .. Len(l) : l[i] \notin WhiteSpace}
    IN  IF inked = {} THEN <<>>
        ELSE SubSeq(l, CHOOSE i \in inked : \A j \in inked : i <= j,
                       CHOOSE i \in inked : \A j \in inked : i >= j)

\* The non-blank lines of the text, trimmed, in file order.
SpecReasonsOf(c) ==
    LET ls == Split(c, "\n")
        kept == SelectSeq(ls, LAMBDA l : ~IsBlank(l))
    IN  [i \in 1 .. Len(kept) |-> SpecTrim(kept[i])]

C14_ReadDeathReasons ==
    pc = "read_death_reasons" =>
        /\ (file_path # <<>> /\ IsOk(reasons)) =>
               /\ file # <<>>
               /\ Len(reasons.list) >= 1
               /\ reasons.list = SpecReasonsOf(file[1])
        /\ (file_path # <<>> /\ file # <<>> /\ SpecReasonsOf(file[1]) = <<>>) =>
               reasons = ErrIo("File is empty")
        /\ (file_path # <<>> /\ file # <<>> /\ SpecReasonsOf(file[1]) # <<>>) =>
               IsOk(reasons)
        /\ file_path = <<>> =>
               /\ reasons = OkList(default_death_reasons)
               /\ Len(reasons.list) >= 1

\* A file with a blank line, a line ending "\r\n" and lines to trim.
C14_Witness ==
    /\ pc = "read_death_reasons"
    /\ file_path # <<>>
    /\ file = <<<<"b", "\r", "a", "\n", "\r", "\n", "a", " ", "b", "\r">>>>
    /\ reasons = OkList(<<<<"b", "\r", "a">>, <<"a", " ", "b">>>>)

-----------------------------------------------------------------------------
(* C15: in main.rs ask_birthday, when the birthday is supplied by flag, the *)
(* first validation error prints the message and terminates the process     *)
(* with a non-zero status without ever prompting; when it is not supplied,  *)
(* every rejected input prints the message and is followed by another       *)
(* prompt, and the loop exits only after an input that parse_birthday       *)
(* accepts, so the age returned is always computed from an accepted         *)
(* birthday.                                                                *)
Returned == pc \in {"asked", "predict"}

C15_FlagExits ==
    (entry = "main" /\ flag # <<>>) =>
        /\ prompts = 0
        /\ (pc # "main" /\ ~IsOk(main_parse_birthday(flag[1], today))) =>
               /\ pc = "exit"
               /\ Len(errors) = 1
               /\ errors[1].msg = main_parse_birthday(flag[1], today).err
               /\ Len(exit_code) = 1
               /\ exit_code[1] # 0
        /\ pc = "exit" => ~IsOk(main_parse_birthday(flag[1], today))

C15_LoopState ==
    (entry = "main" /\ flag = <<>>) =>
        /\ exit_code = <<>>
        /\ pc # "exit"
        /\ Len(errors) = IF Returned THEN prompts - 1 ELSE prompts
        /\ Returned =>
               /\ prompts >= 1
               /\ main_parse_birthday(text, today) = Ok(birthday)
               /\ ask_age = ask_birthday_age(birthday, today)

\* A turn of the loop on an input parse_birthday rejects prints its message
\* and leaves the loop at its prompt; after a rejection only a prompt follows.
C15_LoopStep ==
    (entry = "main" /\ flag = <<>>) =>
        /\ (prompts' = prompts + 1 /\ ~IsOk(main_parse_birthday(text', today))) =>
               /\ Len(errors') = Len(errors) + 1
               /\ SubSeq(errors', 1, Len(errors)) = errors
               /\ errors'[Len(errors')].msg = main_parse_birthday(text', today).err
               /\ pc' = "prompt"
               /\ ask_age' = ask_age
        /\ pc = "prompt" => (prompts' = prompts + 1 /\ text' = input(stdin))
        /\ (Returned' /\ ~Returned) => IsOk(main_parse_birthday(text', today))

C15_AskBirthdayFlow ==
    /\ [](C15_FlagExits /\ C15_LoopState)
    /\ [][C15_LoopStep]_vars

\* A rejected line, a birthday in the future, followed by an accepted one.
C15_Witness ==
    /\ entry = "main"
    /\ flag = <<>>
    /\ pc = "asked"
    /\ prompts = 2
    /\ Len(errors) = 1
    /\ errors[1].msg = main_future_message
    /\ ask_age = Ok(100)

====
